---- MODULE Spec2Model ----
(***************************************************************************)
(* Model of README.py: a shim that patches pathlib, stubs optional         *)
(* packages in sys.modules, puts ~/yolov5 on sys.path and runs             *)
(* ~/yolov5/export.py in-process with a synthesized sys.argv.              *)
(*                                                                         *)
(* The process state is sys.argv, sys.modules (with the attributes of the  *)
(* module objects it holds), pathlib.WindowsPath, sys.path, os.environ,    *)
(* the output streams and the exit status.  main() is a straight line of   *)
(* steps; pc is its position.  Reads of the file system, of the installed  *)
(* packages and the behaviour of export.py are inputs chosen when the      *)
(* statement that reads them runs.                                         *)
(***************************************************************************)
EXTENDS Integers, Sequences, FiniteSets, TLC

VARIABLES pc, args, w, repo, sys_argv, sys_modules, heap, WindowsPath,
          os_name, sys_path, environ, stdout, diag, exit_status,
          export_runs, export_argv, export_outcome, done,
          argv0, modules0, heap0, path0, environ0, WindowsPath0

vars == <<pc, args, w, repo, sys_argv, sys_modules, heap, WindowsPath,
          os_name, sys_path, environ, stdout, diag, exit_status,
          export_runs, export_argv, export_outcome, done,
          argv0, modules0, heap0, path0, environ0, WindowsPath0>>

(* ---------------------------- bounds ---------------------------------- *)

\* largest number of stub-list names already in sys.modules at start
MaxPre == 1
\* largest number of entries of sys.path after sys.path[0] at start
MaxPathExtra == 1

(* ------------------------- strings and paths --------------------------- *)

Digits == "0123456789"

Char(s, i) == SubSeq(s, i, i)

StartsWith(s, p) == Len(s) >= Len(p) /\ SubSeq(s, 1, Len(p)) = p

\* str(n) for an int
RECURSIVE Str(_)
Str(n) ==
  IF n < 0 THEN "-" \o Str(0 - n)
  ELSE IF n < 10 THEN Char(Digits, n + 1)
  ELSE Str(n \div 10) \o Char(Digits, (n % 10) + 1)

IsDigit(c) == \E d \in 1..10 : Char(Digits, d) = c

DigitVal(c) == (CHOOSE d \in 1..10 : Char(Digits, d) = c) - 1

AllDigits(s) == Len(s) > 0 /\ \A i \in 1..Len(s) : IsDigit(Char(s, i))

RECURSIVE DigitsVal(_)
DigitsVal(s) ==
  IF Len(s) = 0 THEN 0
  ELSE 10 * DigitsVal(SubSeq(s, 1, Len(s) - 1)) + DigitVal(Char(s, Len(s)))

\* int(s) accepts an optional sign followed by decimal digits
IsInt(s) ==
  IF StartsWith(s, "-") \/ StartsWith(s, "+")
  THEN AllDigits(SubSeq(s, 2, Len(s)))
  ELSE AllDigits(s)

ParseInt(s) ==
  IF StartsWith(s, "-") THEN 0 - DigitsVal(SubSeq(s, 2, Len(s)))
  ELSE IF StartsWith(s, "+") THEN DigitsVal(SubSeq(s, 2, Len(s)))
  ELSE DigitsVal(s)

Home == "/home/pi"

\* os.path.expanduser for the current user: "~" or "~/..." only
expanduser(p) ==
  IF p = "~" \/ StartsWith(p, "~/") THEN Home \o SubSeq(p, 2, Len(p))
  ELSE p

\* os.path.join(a, b) for a relative b
join(a, b) == IF a = "" \/ Char(a, Len(a)) = "/" THEN a \o b ELSE a \o "/" \o b

Script == "README.py"

(* ------------------------------ argparse ------------------------------- *)

DefaultImgsz == 640
DefaultOpset == 12

\* the namespace before any token is read (add_argument defaults)
Defaults ==
  [has_weights |-> FALSE, weights |-> "", imgsz |-> DefaultImgsz,
   opset |-> DefaultOpset, dynamic |-> FALSE, simplify |-> FALSE]

NoArgs == Defaults

\* argparse takes "-<digits>" as a value, any other "-..." token as an option
IsOptionLike(t) ==
  StartsWith(t, "-") /\ ~AllDigits(SubSeq(t, 2, Len(t)))

HasValue(toks) == Len(toks) >= 2 /\ ~IsOptionLike(toks[2])

Rest(toks, k) == SubSeq(toks, k + 1, Len(toks))

\* ap.parse_args(): tokens are consumed left to right; -h exits 0 where it
\* stands, a bad value exits 2 where it stands, a missing --weights or an
\* unrecognized token exits 2 at the end.
RECURSIVE Scan(_, _, _)
Scan(toks, ns, extras) ==
  IF toks = <<>> THEN
    IF ~ns.has_weights \/ extras THEN [status |-> "error", ns |-> ns]
    ELSE [status |-> "ok", ns |-> ns]
  ELSE
    LET t == Head(toks) IN
    CASE t \in {"-h", "--help"} -> [status |-> "help", ns |-> ns]
      [] t = "--weights" ->
           IF HasValue(toks)
           THEN Scan(Rest(toks, 2),
                     [ns EXCEPT !.has_weights = TRUE, !.weights = toks[2]],
                     extras)
           ELSE [status |-> "error", ns |-> ns]
      [] t = "--imgsz" ->
           IF HasValue(toks) /\ IsInt(toks[2])
           THEN Scan(Rest(toks, 2),
                     [ns EXCEPT !.imgsz = ParseInt(toks[2])], extras)
           ELSE [status |-> "error", ns |-> ns]
      [] t = "--opset" ->
           IF HasValue(toks) /\ IsInt(toks[2])
           THEN Scan(Rest(toks, 2),
                     [ns EXCEPT !.opset = ParseInt(toks[2])], extras)
           ELSE [status |-> "error", ns |-> ns]
      [] t = "--dynamic" ->
           Scan(Rest(toks, 1), [ns EXCEPT !.dynamic = TRUE], extras)
      [] t = "--simplify" ->
           Scan(Rest(toks, 1), [ns EXCEPT !.simplify = TRUE], extras)
      [] OTHER -> Scan(Rest(toks, 1), ns, TRUE)

parse_args(argv) == Scan(Tail(argv), Defaults, FALSE)

(* ------------------------- modules and objects ------------------------- *)

Absent == "<absent>"
NoneObj == "None"
PathlibObj == "<module pathlib>"
PosixPathCls == "<class PosixPath>"
WindowsPathCls == "<class WindowsPath>"
Undefined == "<undefined>"

Genuine(n) == "<module " \o n \o ">"
Stub(n) == "<stub " \o n \o ">"

\* the names stub_optional_packages() registers, in the order of the code
MplNames ==
  <<"matplotlib", "matplotlib.colors", "matplotlib.ticker",
    "matplotlib.transforms">>

OtherNames ==
  <<"seaborn", "numexpr", "bottleneck", "scipy", "albumentations",
    "pycocotools", "thop", "cycler", "pyparsing">>

TorchNames ==
  <<"torchvision", "torchvision.transforms",
    "torchvision.transforms.functional">>

StubOrder ==
  <<"pandas">> \o MplNames \o <<"matplotlib.pyplot">> \o OtherNames
    \o TorchNames

StubList == {StubOrder[i] : i \in 1..Len(StubOrder)}

LocalName == "pathlib._local"

ModNames == StubList \cup {LocalName, "pathlib"}

ModObjs == {Genuine(n) : n \in StubList \cup {LocalName}}
             \cup {Stub(n) : n \in StubList}

PandasAttrs == <<"options", "DataFrame", "Series">>
PandasVals == <<"<namespace display>", "<class _DF>", "<class _DF>">>

PyplotAttrs ==
  <<"figure", "plot", "imshow", "savefig", "close", "title", "subplot",
    "axis">>

NoopFn == "<function _noop>"
GenuineAttr == "<genuine>"

Range(s) == {s[i] : i \in 1..Len(s)}

EmptyAttrs == [a \in {} |-> GenuineAttr]

\* the attributes a real installation of the package has
GenuineAttrs(n) ==
  IF n = "pandas" THEN [a \in Range(PandasAttrs) |-> GenuineAttr]
  ELSE IF n = "matplotlib.pyplot"
       THEN [a \in Range(PyplotAttrs) |-> GenuineAttr]
       ELSE EmptyAttrs

(* --------------------------- the functions ----------------------------- *)

\* obj.a1 = v1; obj.a2 = v2; ... on a module object
SetAttrs(h, obj, names, vals) ==
  [h EXCEPT ![obj] =
     [a \in (DOMAIN @) \cup Range(names) |->
        IF \E i \in 1..Len(names) : names[i] = a
        THEN vals[CHOOSE i \in 1..Len(names) : names[i] = a]
        ELSE @[a]]]

\* bug: the module is created but never stored in sys.modules
ensure_stub_unregistered(st, fullname) == st

\* ensure_stub(fullname) on st = [mods, heap, raised]
ensure_stub(st, fullname) ==
  IF st.mods[fullname] # Absent THEN st
  ELSE [st EXCEPT !.mods[fullname] = Stub(fullname)]

RECURSIVE ensure_stubs(_, _)
ensure_stubs(st, names) ==
  IF names = <<>> THEN st
  ELSE ensure_stubs(ensure_stub(st, Head(names)), Tail(names))

\* pd = ensure_stub('pandas'); try: pd.options = ...; pd.DataFrame = _DF;
\* pd.Series = _DF; except Exception: pass
\* Assigning an attribute of None raises AttributeError, swallowed here.
stub_pandas(st) ==
  LET s1 == ensure_stub(st, "pandas")
      pd == s1.mods["pandas"]
  IN IF pd = NoneObj THEN s1
     ELSE [s1 EXCEPT !.heap = SetAttrs(@, pd, PandasAttrs, PandasVals)]

\* plt = ensure_stub('matplotlib.pyplot'); plt.figure = _noop; ...
\* no try: an AttributeError leaves stub_optional_packages()
stub_pyplot(st) ==
  LET s1 == ensure_stub(st, "matplotlib.pyplot")
      plt == s1.mods["matplotlib.pyplot"]
  IN IF plt = NoneObj THEN [s1 EXCEPT !.raised = TRUE]
     ELSE [s1 EXCEPT !.heap =
             SetAttrs(@, plt, PyplotAttrs, [i \in 1..Len(PyplotAttrs) |-> NoopFn])]

stub_optional_packages(mods, h) ==
  LET s0 == [mods |-> mods, heap |-> h, raised |-> FALSE]
      s1 == stub_pandas(s0)
      s2 == ensure_stubs(s1, MplNames)
      s3 == stub_pyplot(s2)
  IN IF s3.raised THEN s3
     ELSE ensure_stubs(ensure_stubs(s3, OtherNames), TorchNames)

\* dict.setdefault(k, v)
setdefault(d, k, v, unset) == IF d[k] = unset THEN [d EXCEPT ![k] = v] ELSE d

\* bug: plain assignment instead of setdefault
patch_modules_overwrite(mods) == [mods EXCEPT ![LocalName] = PathlibObj]

\* patch_pathlib_only(): the sys.modules after it
patch_modules(mods) == setdefault(mods, LocalName, PathlibObj, Absent)

\* bug: the test on os.name is inverted
patch_WindowsPath_inverted(os, wp) ==
  IF os = "nt" /\ wp # Undefined THEN PosixPathCls ELSE wp

\* patch_pathlib_only(): the binding of pathlib.WindowsPath after it.
\* Assigning an attribute of the pathlib module cannot raise, so the
\* except branch is never taken.
patch_WindowsPath(os, wp) ==
  IF os # "nt" /\ wp # Undefined THEN PosixPathCls ELSE wp

RepoDir == expanduser("~/yolov5")

\* ensure_repo_on_path(): sys.path after it, when the directory exists
insert_repo(path, r) ==
  IF r \in Range(path) THEN path ELSE <<r>> \o path

EnvKeys == {"YOLOV5_AUTOINSTALL", "ULTRALYTICS_NO_AUTOINSTALL"}
Unset == "<unset>"

\* bug: plain assignment instead of setdefault
set_environ_overwrite(env) ==
  [env EXCEPT !["YOLOV5_AUTOINSTALL"] = "0",
              !["ULTRALYTICS_NO_AUTOINSTALL"] = "1"]

set_environ(env) ==
  setdefault(setdefault(env, "YOLOV5_AUTOINSTALL", "0", Unset),
             "ULTRALYTICS_NO_AUTOINSTALL", "1", Unset)

\* bug: the raw --weights value is forwarded and the flags are swapped
build_argv_raw(r, weights, a) ==
  <<join(r, "export.py"), "--weights", a.weights, "--include", "onnx",
    "--imgsz", Str(a.imgsz), "--opset", Str(a.opset)>>
    \o (IF a.simplify THEN <<"--simplify">> ELSE <<>>)
    \o (IF a.dynamic THEN <<"--dynamic">> ELSE <<>>)

\* the argv of lines 123-133
build_argv(r, weights, a) ==
  <<join(r, "export.py"), "--weights", weights, "--include", "onnx",
    "--imgsz", Str(a.imgsz), "--opset", Str(a.opset)>>
    \o (IF a.dynamic THEN <<"--dynamic">> ELSE <<>>)
    \o (IF a.simplify THEN <<"--simplify">> ELSE <<>>)

(* ------------------------- the starting states ------------------------- *)

Running == 0 - 1

\* command lines: every combination of the optional flags (GoodCmds), and
\* help, usage errors and a negative integer value (EdgeCmds)
WeightsToks == {<<"--weights", "~/best.pt">>, <<"--weights", "/data/best.pt">>}
ImgszToks == {<<>>, <<"--imgsz", "320">>, <<"--imgsz", "0640">>}
OpsetToks == {<<>>, <<"--opset", "17">>}
FlagToks == {<<>>, <<"--dynamic">>, <<"--simplify">>,
             <<"--dynamic", "--simplify">>, <<"--simplify", "--dynamic">>}

GoodCmds ==
  {wt \o it \o ot \o ft :
     wt \in WeightsToks, it \in ImgszToks, ot \in OpsetToks, ft \in FlagToks}

EdgeCmds ==
  {<<>>, <<"--help">>, <<"--weights">>, <<"--weights", "--dynamic">>,
   <<"--weights", "~/best.pt", "--imgsz", "abc">>,
   <<"--weights", "~/best.pt", "--bogus">>,
   <<"--weights", "~/best.pt", "-h">>,
   <<"--imgsz", "-1", "--weights", "~/best.pt">>}

DefaultCmd == <<"--weights", "~/best.pt">>

RECURSIVE SubsetsUpTo(_)
SubsetsUpTo(k) ==
  IF k = 0 THEN {{}}
  ELSE LET P == SubsetsUpTo(k - 1)
       IN P \cup {s \cup {n} : s \in P, n \in StubList}

\* sys.modules at start over the stub list: up to MaxPre names are already
\* registered, to a real module or (pandas, pyplot) to None
Registries ==
  {[n \in StubList |->
      IF n \in nn THEN NoneObj ELSE IF n \in s THEN Genuine(n) ELSE Absent] :
     s \in SubsetsUpTo(MaxPre),
     nn \in SUBSET {"pandas", "matplotlib.pyplot"}}

NoRegistry == [n \in StubList |-> Absent]

Locals == {Absent, PathlibObj, Genuine(LocalName)}

PathEntries == {RepoDir, "/usr/lib/python3"}

RECURSIVE SeqsUpTo(_)
SeqsUpTo(k) ==
  IF k = 0 THEN {<<>>}
  ELSE LET P == SeqsUpTo(k - 1)
       IN P \cup {<<e>> \o q : e \in PathEntries, q \in P}

\* sys.path[0] is the directory of the script
ScriptDirs == {"/home/pi/tools", RepoDir}

Paths == {<<d>> \o q : d \in ScriptDirs, q \in SeqsUpTo(MaxPathExtra)}

DefaultPath == <<"/home/pi/tools", "/usr/lib/python3">>

Envs == [EnvKeys -> {Unset, "0", "1"}]

NoEnv == [k \in EnvKeys |-> Unset]

Platforms == {"posix", "nt"} \X {WindowsPathCls, Undefined}

Config(cmd, reg, loc, path, env, plat) ==
  [cmd |-> cmd, reg |-> reg, loc |-> loc, path |-> path, env |-> env,
   os |-> plat[1], wp |-> plat[2]]

DefaultPlat == <<"posix", WindowsPathCls>>

Configs ==
  {Config(c, NoRegistry, Absent, DefaultPath, NoEnv, DefaultPlat) :
     c \in GoodCmds \cup EdgeCmds}
  \cup
  {Config(DefaultCmd, r, l, DefaultPath, NoEnv, pl) :
     r \in Registries, l \in Locals, pl \in Platforms}
  \cup
  {Config(c, NoRegistry, l, pa, e, DefaultPlat) :
     c \in {DefaultCmd, <<"--weights", "/data/best.pt", "--dynamic">>},
     l \in {Absent, Genuine(LocalName)}, pa \in Paths, e \in Envs}

Modules(reg, loc) ==
  [n \in ModNames |->
     IF n = "pathlib" THEN PathlibObj
     ELSE IF n = LocalName THEN loc
     ELSE reg[n]]

Heap(mods) ==
  [o \in ModObjs |->
     IF \E n \in StubList : o = Genuine(n) /\ mods[n] = o
     THEN GenuineAttrs(CHOOSE n \in StubList : o = Genuine(n))
     ELSE EmptyAttrs]

Init ==
  \E c \in Configs :
    /\ pc = "parse"
    /\ args = NoArgs
    /\ w = ""
    /\ repo = ""
    /\ sys_argv = <<Script>> \o c.cmd
    /\ sys_modules = Modules(c.reg, c.loc)
    /\ heap = Heap(Modules(c.reg, c.loc))
    /\ WindowsPath = c.wp
    /\ os_name = c.os
    /\ sys_path = c.path
    /\ environ = c.env
    /\ stdout = <<>>
    /\ diag = ""
    /\ exit_status = Running
    /\ export_runs = 0
    /\ export_argv = <<>>
    /\ export_outcome = ""
    /\ done = <<>>
    /\ argv0 = sys_argv
    /\ modules0 = sys_modules
    /\ heap0 = heap
    /\ path0 = sys_path
    /\ environ0 = environ
    /\ WindowsPath0 = WindowsPath

(* ------------------------------ main() --------------------------------- *)

history == <<argv0, modules0, heap0, path0, environ0, WindowsPath0>>

\* raise SystemExit(msg) / an uncaught exception / sys.exit(code)
Exit(code, msg) ==
  /\ pc' = "exited"
  /\ exit_status' = code
  /\ diag' = msg

Step(name, next) ==
  /\ pc' = next
  /\ done' = Append(done, name)
  /\ UNCHANGED <<exit_status, diag>>

\* lines 93-100: args = ap.parse_args()
ParseArgs ==
  /\ pc = "parse"
  /\ LET r == parse_args(sys_argv) IN
       CASE r.status = "ok" -> /\ args' = r.ns
                               /\ Step("parse", "weights")
         [] r.status = "help" -> /\ Exit(0, "help")
                                 /\ UNCHANGED <<args, done>>
         [] OTHER -> /\ Exit(2, "usage")
                     /\ UNCHANGED <<args, done>>
  /\ UNCHANGED <<w, repo, sys_argv, sys_modules, heap, WindowsPath, os_name,
                 sys_path, environ, stdout, export_runs, export_argv,
                 export_outcome, history>>

\* bug: the weights file is checked after patch_pathlib_only() has run
CheckWeightsAfterPatch ==
  /\ pc = "weights"
  /\ w' = expanduser(args.weights)
  /\ sys_modules' = patch_modules(sys_modules)
  /\ WindowsPath' = patch_WindowsPath(os_name, WindowsPath)
  /\ \E isfile \in BOOLEAN :
       IF isfile THEN Step("weights", "onnx")
       ELSE Exit(1, "no_weights") /\ UNCHANGED done
  /\ UNCHANGED <<args, repo, sys_argv, heap, os_name, sys_path, environ,
                 stdout, export_runs, export_argv, export_outcome, history>>

\* lines 102-104: the weights file must exist
CheckWeights ==
  /\ pc = "weights"
  /\ w' = expanduser(args.weights)
  /\ \E isfile \in BOOLEAN :
       IF isfile THEN Step("weights", "onnx")
       ELSE Exit(1, "no_weights") /\ UNCHANGED done
  /\ UNCHANGED <<args, repo, sys_argv, sys_modules, heap, WindowsPath,
                 os_name, sys_path, environ, stdout, export_runs,
                 export_argv, export_outcome, history>>

\* lines 106-110: import onnx
ImportOnnx ==
  /\ pc = "onnx"
  /\ \E installed \in BOOLEAN :
       IF installed THEN Step("onnx", "patch")
       ELSE Exit(1, "no_onnx") /\ UNCHANGED done
  /\ UNCHANGED <<args, w, repo, sys_argv, sys_modules, heap, WindowsPath,
                 os_name, sys_path, environ, stdout, export_runs,
                 export_argv, export_outcome, history>>

\* line 113: patch_pathlib_only()
PatchPathlib ==
  /\ pc = "patch"
  /\ sys_modules' = patch_modules(sys_modules)
  /\ WindowsPath' = patch_WindowsPath(os_name, WindowsPath)
  /\ Step("patch", "stub")
  /\ UNCHANGED <<args, w, repo, sys_argv, heap, os_name, sys_path, environ,
                 stdout, export_runs, export_argv, export_outcome, history>>

\* line 114: stub_optional_packages()
StubOptionalPackages ==
  /\ pc = "stub"
  /\ LET r == stub_optional_packages(sys_modules, heap) IN
       /\ sys_modules' = r.mods
       /\ heap' = r.heap
       /\ IF r.raised THEN Exit(1, "traceback") /\ UNCHANGED done
          ELSE Step("stub", "repo")
  /\ UNCHANGED <<args, w, repo, sys_argv, WindowsPath, os_name, sys_path,
                 environ, stdout, export_runs, export_argv, export_outcome,
                 history>>

\* bug: the directory is put on sys.path before it is checked
EnsureRepoInsertFirst ==
  /\ pc = "repo"
  /\ sys_path' = insert_repo(sys_path, RepoDir)
  /\ \E isdir \in BOOLEAN :
       IF isdir
       THEN /\ repo' = RepoDir
            /\ Step("repo", "environ")
       ELSE /\ Exit(1, "no_repo")
            /\ UNCHANGED <<repo, done>>
  /\ UNCHANGED <<args, w, sys_argv, sys_modules, heap, WindowsPath, os_name,
                 environ, stdout, export_runs, export_argv, export_outcome,
                 history>>

\* line 117: repo = ensure_repo_on_path()
EnsureRepoOnPath ==
  /\ pc = "repo"
  /\ \E isdir \in BOOLEAN :
       IF isdir
       THEN /\ sys_path' = insert_repo(sys_path, RepoDir)
            /\ repo' = RepoDir
            /\ Step("repo", "environ")
       ELSE /\ Exit(1, "no_repo")
            /\ UNCHANGED <<sys_path, repo, done>>
  /\ UNCHANGED <<args, w, sys_argv, sys_modules, heap, WindowsPath, os_name,
                 environ, stdout, export_runs, export_argv, export_outcome,
                 history>>

\* lines 120-121: os.environ.setdefault(...)
SetEnviron ==
  /\ pc = "environ"
  /\ environ' = set_environ(environ)
  /\ Step("environ", "argv")
  /\ UNCHANGED <<args, w, repo, sys_argv, sys_modules, heap, WindowsPath,
                 os_name, sys_path, stdout, export_runs, export_argv,
                 export_outcome, history>>

\* lines 123-136: build argv, print it, sys.argv = argv
BuildArgv ==
  /\ pc = "argv"
  /\ sys_argv' = build_argv(repo, w, args)
  /\ stdout' = Append(stdout, "info")
  /\ Step("argv", "run")
  /\ UNCHANGED <<args, w, repo, sys_modules, heap, WindowsPath, os_name,
                 sys_path, environ, export_runs, export_argv, export_outcome,
                 history>>

\* what running export.py can do to this process: return, raise an
\* exception, or raise SystemExit with a zero or a non-zero code
Outcomes == {"return", "raise", "exit0", "exit1"}

\* bug: an exception of export.py is caught and main() carries on
RunExportCaught ==
  /\ pc = "run"
  /\ export_runs' = export_runs + 1
  /\ export_argv' = sys_argv
  /\ \E o \in Outcomes :
       /\ export_outcome' = o
       /\ CASE o \in {"return", "raise"} -> Step("run", "ok")
            [] o = "exit0" -> Exit(0, "") /\ UNCHANGED done
            [] OTHER -> Exit(1, "") /\ UNCHANGED done
  /\ UNCHANGED <<args, w, repo, sys_argv, sys_modules, heap, WindowsPath,
                 os_name, sys_path, environ, stdout, history>>

\* line 137: runpy.run_path(export.py, run_name='__main__'); nothing is caught
RunExport ==
  /\ pc = "run"
  /\ export_runs' = export_runs + 1
  /\ export_argv' = sys_argv
  /\ \E o \in Outcomes :
       /\ export_outcome' = o
       /\ CASE o = "return" -> Step("run", "ok")
            [] o = "raise" -> Exit(1, "traceback") /\ UNCHANGED done
            [] o = "exit0" -> Exit(0, "") /\ UNCHANGED done
            [] OTHER -> Exit(1, "") /\ UNCHANGED done
  /\ UNCHANGED <<args, w, repo, sys_argv, sys_modules, heap, WindowsPath,
                 os_name, sys_path, environ, stdout, history>>

\* line 138: the success message, then main() returns and the process ends
PrintOK ==
  /\ pc = "ok"
  /\ stdout' = Append(stdout, "OK")
  /\ pc' = "exited"
  /\ exit_status' = 0
  /\ done' = Append(done, "ok")
  /\ UNCHANGED <<args, w, repo, sys_argv, sys_modules, heap, WindowsPath,
                 os_name, sys_path, environ, diag, export_runs, export_argv,
                 export_outcome, history>>

Next ==
  \/ ParseArgs
  \/ CheckWeights
  \/ ImportOnnx
  \/ PatchPathlib
  \/ StubOptionalPackages
  \/ EnsureRepoOnPath
  \/ SetEnviron
  \/ BuildArgv
  \/ RunExport
  \/ PrintOK

Spec == Init /\ [][Next]_vars

TypeOK ==
  /\ pc \in {"parse", "weights", "onnx", "patch", "stub", "repo", "environ",
             "argv", "run", "ok", "exited"}
  /\ exit_status \in {Running, 0, 1, 2}
  /\ export_runs \in 0..1

(* ------------------------------ properties ----------------------------- *)

Ran(step) == step \in Range(done)

Exited == pc = "exited"

Printed(m) == m \in Range(stdout)

NonePreinstalled == \A n \in StubList : modules0[n] = Absent

C3_RegisteredModulesUntouched ==
  Ran("stub") =>
    \A n \in StubList :
      modules0[n] \in ModObjs =>
        /\ sys_modules[n] = modules0[n]
        /\ heap[modules0[n]] = heap0[modules0[n]]

\* C4: the sys.argv export.py runs with is the script path, --weights and
\* the expanded path, --include onnx, --imgsz and --opset with the decimal
\* text of the parsed integers, then --dynamic iff asked for, then
\* --simplify iff asked for; for the bare command line it is the literal
\* nine-element vector with 640 and 12.
C4_ExportArgv ==
  export_runs = 1 =>
    /\ Len(export_argv) =
         9 + (IF args.dynamic THEN 1 ELSE 0) + (IF args.simplify THEN 1 ELSE 0)
    /\ SubSeq(export_argv, 1, 5) =
         <<"/home/pi/yolov5/export.py", "--weights", w, "--include", "onnx">>
    /\ w \in {"/home/pi/best.pt", "/data/best.pt"}
    /\ export_argv[6] = "--imgsz"
    /\ export_argv[7] = Str(args.imgsz)
    /\ export_argv[8] = "--opset"
    /\ export_argv[9] = Str(args.opset)
    /\ args.dynamic <=> (Len(export_argv) >= 10 /\ export_argv[10] = "--dynamic")
    /\ args.simplify <=> export_argv[Len(export_argv)] = "--simplify"
    /\ ("--imgsz" \notin Range(argv0) /\ "--opset" \notin Range(argv0)) =>
         SubSeq(export_argv, 6, 9) = <<"--imgsz", "640", "--opset", "12">>
    /\ argv0 = <<Script>> \o DefaultCmd =>
         export_argv =
           <<"/home/pi/yolov5/export.py", "--weights", "/home/pi/best.pt",
             "--include", "onnx", "--imgsz", "640", "--opset", "12">>

C4_Witness ==
  /\ export_runs = 1
  /\ args.dynamic
  /\ args.simplify
  /\ args.imgsz = 320
  /\ args.weights = "~/best.pt"

\* C5 as stated: a run on which export.py raises ends with a non-zero status
\* and without the success message, and a run ends with status 0 only if
\* the success message was printed.
C5_AsStated ==
  /\ Printed("OK") => export_outcome = "return"
  /\ export_outcome \in {"raise", "exit0", "exit1"} =>
       /\ Exited
       /\ exit_status # 0
       /\ ~Printed("OK")
  /\ exit_status = 0 => Printed("OK")

\* C5 (amended): the success message is printed only after export.py has
\* returned; a run on which export.py raises ends there, without the
\* message and after one execution, with a non-zero status unless the
\* exception is SystemExit with a zero code; a run ends with status 0 only
\* if the message was printed, export.py raised SystemExit(0) or --help
\* was asked for.
C5_SuccessOnlyAfterReturn ==
  /\ Printed("OK") => export_outcome = "return" /\ export_runs = 1
  /\ export_outcome \in {"raise", "exit0", "exit1"} =>
       /\ Exited
       /\ export_runs = 1
       /\ ~Printed("OK")
       /\ export_outcome # "exit0" => exit_status \notin {Running, 0}
  /\ exit_status = 0 =>
       \/ Printed("OK")
       \/ export_outcome = "exit0"
       \/ diag = "help"

C5_Witness ==
  /\ export_outcome = "raise"
  /\ Exited
  /\ exit_status = 1

\* C6: once ensure_repo_on_path() has returned, ~/yolov5 is sys.path[0].
C6_RepoFirstOnPath ==
  Ran("repo") => sys_path[1] = RepoDir

\* C7: after stub_optional_packages() has run from a sys.modules holding no
\* stub-list name, every stub-list name is registered and every name that
\* was registered is still registered.
C7_AllStubsRegistered ==
  (Ran("stub") /\ NonePreinstalled) =>
    /\ \A n \in StubList : sys_modules[n] # Absent
    /\ \A n \in ModNames : modules0[n] # Absent => sys_modules[n] # Absent
    /\ sys_modules[LocalName] # Absent

C7_Witness ==
  /\ Ran("stub")
  /\ NonePreinstalled
  /\ sys_modules["torchvision.transforms.functional"] =
       Stub("torchvision.transforms.functional")
  /\ sys_modules["pandas"] = Stub("pandas")

C9_AsStated ==
  Ran("patch") => sys_modules[LocalName] = PathlibObj

\* C9 (amended): after patch_pathlib_only(), 'pathlib._local' is bound to
\* the pathlib module if it was not registered before, and otherwise to the
\* object that was registered under it.
C9_LocalAliasSetdefault ==
  Ran("patch") =>
    sys_modules[LocalName] =
      IF modules0[LocalName] = Absent THEN PathlibObj ELSE modules0[LocalName]

C9_Witness ==
  /\ Ran("patch")
  /\ modules0[LocalName] = Genuine(LocalName)
  /\ sys_modules[LocalName] = Genuine(LocalName)

StepOrder ==
  <<"parse", "weights", "onnx", "patch", "stub", "repo", "environ", "argv",
    "run", "ok">>

\* C10: the steps complete in the one fixed order, export.py is executed at
\* most once, and when it is executed the parse, both checks, the patch,
\* the stubs, the sys.path entry and the two environment toggles are in
\* place, a toggle the caller had set keeping the caller's value.
C10_FixedOrder ==
  /\ Len(done) <= Len(StepOrder)
  /\ done = SubSeq(StepOrder, 1, Len(done))
  /\ export_runs <= 1
  /\ export_runs = 1 =>
       /\ SubSeq(done, 1, 8) = SubSeq(StepOrder, 1, 8)
       /\ args.has_weights
       /\ sys_modules[LocalName] # Absent
       /\ \A n \in StubList : sys_modules[n] # Absent
       /\ RepoDir \in Range(sys_path)
       /\ \A k \in EnvKeys :
            environ[k] =
              IF environ0[k] # Unset THEN environ0[k]
              ELSE IF k = "YOLOV5_AUTOINSTALL" THEN "0" ELSE "1"

C10_Witness ==
  /\ export_runs = 1
  /\ environ0["YOLOV5_AUTOINSTALL"] = "1"
  /\ environ0["ULTRALYTICS_NO_AUTOINSTALL"] = Unset
  /\ environ["ULTRALYTICS_NO_AUTOINSTALL"] = "1"
  /\ pc = "exited"
====
